---- MODULE Spec2Model ----
(***************************************************************************)
(* Law system of the stellar-accord backend: proposal, voting, resolution, *)
(* conflict voiding, enactment and expiration of laws.                     *)
(*                                                                         *)
(* The database tables law_proposals and enacted_laws are sequences of     *)
(* records in insertion order.  Rows are read as plain records: a field    *)
(* read row.get("f") / row.f is the record field f, and a primary key and  *)
(* its str() form denote the same id.  The game a proposal belongs to is   *)
(* the game_id of the request that created it.  A query without ORDER BY   *)
(* returns its rows in an order the database chooses.                      *)
(***************************************************************************)
EXTENDS Integers, Sequences, FiniteSets, TLC

\* ------------------------------------------------------------------ bounds
MaxProposals == 2
MaxLaws == 2
MaxRound == 2
MaxListed == 3

\* --------------------------------------------------------------- constants
InitialRound == 1
DefaultDuration == 3
FallbackDuration == 3

None == "None"
NoId == 0

GameIds == {1, 2}
Civilizations == {"Thrizoth", "Vasku"}
\* round numbers an expire-check request carries
CheckRounds == {4, 5}
Tiebreakers == {"none", "random", "oldest_first", "unset"}

\* LawSystemConfig.get_defaults()["voting_rules"]
DefaultRules == [tiebreaker |-> "none", abstain_allowed |-> FALSE]

\* --------------------------------------------------------- template catalog
law_templates ==
  [ resource_tax_law |->
      [ parameters |->
          << [name |-> "RESOURCE_TYPE", type |-> "resource_category",
              min |-> 0, max |-> 0],
             [name |-> "TAX_PERCENTAGE", type |-> "range",
              min |-> 5, max |-> 30] >>,
        category |-> "economic",
        effects  |-> [type |-> "resource_tax", applies_to |-> "trade"] ],
    trade_route_taxation |->
      [ parameters |->
          << [name |-> "REGION", type |-> "star_system", min |-> 0, max |-> 0],
             [name |-> "TAX_PERCENTAGE", type |-> "range",
              min |-> 5, max |-> 25] >>,
        category |-> "economic",
        effects  |-> [type |-> "route_tax", applies_to |-> "trade"] ],
    project_development_ban |->
      [ parameters |->
          << [name |-> "PROJECT_NAME", type |-> "project", min |-> 0, max |-> 0],
             [name |-> "LICENSE_COST", type |-> "range",
              min |-> 100, max |-> 300],
             [name |-> "RESOURCE_TYPE", type |-> "resource_type",
              min |-> 0, max |-> 0] >>,
        category |-> "technology",
        effects  |-> [type |-> "project_restriction",
                      applies_to |-> "specific_project"] ] ]

TemplateIds == DOMAIN law_templates

\* A float is held as the decimal it is nearest to, in tenths, and its
\* distance from that decimal in units in the last place (ulps).
Tenths == 10

\* float(): the strings that coerce to a number, with their value in tenths
FloatOf ==
  [ v \in {"10", "15", "200", "30", "-5", "5", "25", "100", "300",
           "10.1", "20.2", "5.3", "150.5"} |->
      CASE v = "10" -> 100 [] v = "15" -> 150 [] v = "200" -> 2000
        [] v = "30" -> 300 [] v = "-5" -> -50 [] v = "5" -> 50
        [] v = "25" -> 250 [] v = "100" -> 1000 [] v = "300" -> 3000
        [] v = "10.1" -> 101 [] v = "20.2" -> 202 [] v = "5.3" -> 53
        [] v = "150.5" -> 1505 ]

\* float(): the strings that coerce to NaN, which compares false with
\* every number
NaNStrings == {"nan"}

\* int(): the strings it parses (integer literals); it raises ValueError
\* on every other string
IntStrings == {"10", "15", "200", "30", "-5", "5", "25", "100", "300"}

\* Binary floating-point addition acc + x of the accumulated tax acc (the
\* double acc_ulps ulps away from the one nearest to acc_val tenths) and the
\* parsed parameter x (the double nearest to x_val tenths): the distance in
\* ulps of the IEEE-754 double sum from the double nearest to the decimal
\* sum.  Sums of whole numbers are exact; the table lists the inexact sums
\* among 10.1, 20.2 and 5.3 (10.1 + 20.2 = 30.299999999999997, ...).
FloatAddUlps(acc_val, acc_ulps, x_val) ==
  CASE acc_val = 101 /\ acc_ulps = 0 /\ x_val = 202 -> -1
    [] acc_val = 202 /\ acc_ulps = 0 /\ x_val = 101 -> -1
    [] acc_val = 101 /\ acc_ulps = 0 /\ x_val = 53 -> -1
    [] acc_val = 53 /\ acc_ulps = 0 /\ x_val = 101 -> -1
    [] acc_val = 303 /\ acc_ulps = -1 /\ x_val = 53 -> -1
    [] acc_val = 154 /\ acc_ulps = -1 /\ x_val = 202 -> -1
    [] OTHER -> 0

\* Parameter sets the requests of the model carry for a template.
RequestParameters(t) ==
  CASE t = "resource_tax_law" ->
         { [RESOURCE_TYPE |-> "Neutronium", TAX_PERCENTAGE |-> "15"] }
    [] t = "trade_route_taxation" ->
         { [REGION |-> rg, TAX_PERCENTAGE |-> "10"] : rg \in {"Alpha", "Beta"} }
    [] t = "project_development_ban" ->
         { [PROJECT_NAME |-> "Dyson Sphere", LICENSE_COST |-> "200",
            RESOURCE_TYPE |-> "Crystal"] }

\* dict.get(key) with the default None
Get(d, key) == IF key \in DOMAIN d THEN d[key] ELSE None

\* ------------------------------------------------------------------- state
VARIABLES
  games,           \* ids of the rows of table games
  current_round,   \* Game.current_round of every game
  proposals,       \* table law_proposals
  laws,            \* table enacted_laws
  voting_rules,    \* LawSystemConfig.voting_rules
  pending,         \* vote requests that have read the ledger and not yet
                   \* written it back
  last             \* the request handled last and its outcome

vars == <<games, current_round, proposals, laws, voting_rules, pending, last>>

\* ------------------------------------------------------------ sequence aids
Range(s) == { s[i] : i \in 1..Len(s) }

Contains(s, x) == \E i \in 1..Len(s) : s[i] = x

\* all orderings of a finite set, as sequences
Orderings(S) ==
  { s \in [1..Cardinality(S) -> S] : \A x \in S : \E i \in 1..Cardinality(S) : s[i] = x }

\* keys of a dict filled by iterating over s: order of first occurrence
RECURSIVE DictKeys(_)
DictKeys(s) ==
  IF s = <<>> THEN <<>>
  ELSE LET r == DictKeys(SubSeq(s, 1, Len(s) - 1))
           x == s[Len(s)]
       IN  IF Contains(r, x) THEN r ELSE Append(r, x)

RECURSIVE SeqMax(_)
SeqMax(s) ==
  IF Len(s) = 1 THEN s[1]
  ELSE LET m == SeqMax(Tail(s)) IN IF s[1] >= m THEN s[1] ELSE m

\* -------------------------------------------------------------- crud reads
get_law_proposal(pid) ==
  { proposals[i] : i \in { j \in 1..Len(proposals) : proposals[j].id = pid } }

\* ids of the proposals of a game, optionally of one round (0 = no filter)
get_law_proposals(g, r) ==
  { proposals[i].id : i \in { j \in 1..Len(proposals) :
       /\ proposals[j].game_id = g
       /\ (r # NoId => proposals[j].round_number = r) } }

ProposalById(pid) == CHOOSE p \in get_law_proposal(pid) : TRUE

get_votes_by_game(g) ==
  [ pid \in get_law_proposals(g, NoId) |-> ProposalById(pid).votes ]

get_active_laws(g) ==
  { laws[i].id : i \in { j \in 1..Len(laws) :
       laws[j].game_id = g /\ laws[j].is_active } }

LawById(lid) == laws[CHOOSE i \in 1..Len(laws) : laws[i].id = lid]

\* ------------------------------------------------- LawSystemService (pure)
\* the error messages validate_parameters collects for the parameter
\* definitions defs, in order
RECURSIVE ParameterErrors(_, _)
ParameterErrors(defs, parameters) ==
  IF defs = <<>> THEN <<>>
  ELSE
    LET param_def == Head(defs)
        param_name == param_def.name
        rest == ParameterErrors(Tail(defs), parameters)
    IN
    IF param_name \notin DOMAIN parameters
    THEN <<"Missing required parameter">> \o rest
    ELSE IF param_def.type = "range"
    THEN IF parameters[param_name] \notin DOMAIN FloatOf \cup NaNStrings
         THEN <<"Parameter must be a number">> \o rest
         ELSE IF /\ parameters[param_name] \in DOMAIN FloatOf
                 /\ \/ FloatOf[parameters[param_name]] < param_def.min * Tenths
                    \/ FloatOf[parameters[param_name]] > param_def.max * Tenths
         THEN <<"Parameter out of range">> \o rest
         ELSE rest
    ELSE IF param_def.type = "number"
    THEN IF parameters[param_name] \notin DOMAIN FloatOf \cup NaNStrings
         THEN <<"Parameter must be a number">> \o rest
         ELSE rest
    ELSE rest

\* validate_parameters: the list of error messages (empty = valid)
validate_parameters(template_id, parameters) ==
  IF template_id \notin TemplateIds THEN <<"Template not found">>
  ELSE ParameterErrors(law_templates[template_id].parameters, parameters)

\* LawSystemConfig.calculate_effects: template effects plus the parameters
calculate_effects(template_id, parameters) ==
  [ type |-> law_templates[template_id].effects.type,
    applies_to |-> law_templates[template_id].effects.applies_to,
    parameters |-> parameters ]

\* create_law_proposal that leaves the vote list empty
create_law_proposal_NoVote(template_id, parameters, proposing_civilization) ==
  LET errors == validate_parameters(template_id, parameters) IN
  IF errors # <<>> THEN [success |-> FALSE, errors |-> errors]
  ELSE [ success |-> TRUE,
         proposal |->
           [ template_id |-> template_id,
             parameters |-> parameters,
             category |-> law_templates[template_id].category,
             effects |-> calculate_effects(template_id, parameters),
             proposing_civilization |-> proposing_civilization,
             votes |-> <<>> ] ]

\* create_law_proposal that only checks that the template exists
create_law_proposal_TemplateOnly(template_id, parameters, proposing_civilization) ==
  LET errors == validate_parameters(template_id, parameters) IN
  IF template_id \notin TemplateIds THEN [success |-> FALSE, errors |-> errors]
  ELSE [ success |-> TRUE,
         proposal |->
           [ template_id |-> template_id,
             parameters |-> parameters,
             category |-> law_templates[template_id].category,
             effects |-> calculate_effects(template_id, parameters),
             proposing_civilization |-> proposing_civilization,
             votes |-> <<proposing_civilization>> ] ]

create_law_proposal(template_id, parameters, proposing_civilization) ==
  LET errors == validate_parameters(template_id, parameters) IN
  IF errors # <<>> THEN [success |-> FALSE, errors |-> errors]
  ELSE [ success |-> TRUE,
         proposal |->
           [ template_id |-> template_id,
             parameters |-> parameters,
             category |-> law_templates[template_id].category,
             effects |-> calculate_effects(template_id, parameters),
             proposing_civilization |-> proposing_civilization,
             votes |-> <<proposing_civilization>> ] ]

\* vote_on_law that appends without looking for the voter in the list
vote_on_law_AlwaysAppend(proposal_id, voting_civilization, vote, current_votes, rules) ==
  IF ~vote /\ ~rules.abstain_allowed
  THEN [success |-> FALSE, updated_votes |-> current_votes]
  ELSE
    IF vote
    THEN LET withKey ==
               IF proposal_id \in DOMAIN current_votes THEN current_votes
               ELSE [ k \in DOMAIN current_votes \cup {proposal_id} |->
                        IF k = proposal_id THEN <<>> ELSE current_votes[k] ]
         IN  [ success |-> TRUE,
               updated_votes |->
                 [withKey EXCEPT ![proposal_id] =
                    Append(@, voting_civilization)] ]
    ELSE [success |-> TRUE, updated_votes |-> current_votes]

\* vote_on_law that records a vote whatever the flag says
vote_on_law_CountsAbstain(proposal_id, voting_civilization, vote, current_votes, rules) ==
  IF ~vote /\ ~rules.abstain_allowed
  THEN [success |-> FALSE, updated_votes |-> current_votes]
  ELSE
    LET withKey ==
          IF proposal_id \in DOMAIN current_votes THEN current_votes
          ELSE [ k \in DOMAIN current_votes \cup {proposal_id} |->
                   IF k = proposal_id THEN <<>> ELSE current_votes[k] ]
    IN  [ success |-> TRUE,
          updated_votes |->
            IF Contains(withKey[proposal_id], voting_civilization)
            THEN withKey
            ELSE [withKey EXCEPT ![proposal_id] =
                    Append(@, voting_civilization)] ]

vote_on_law(proposal_id, voting_civilization, vote, current_votes, rules) ==
  IF ~vote /\ ~rules.abstain_allowed
  THEN [success |-> FALSE, updated_votes |-> current_votes]
  ELSE
    IF vote
    THEN LET withKey ==
               IF proposal_id \in DOMAIN current_votes THEN current_votes
               ELSE [ k \in DOMAIN current_votes \cup {proposal_id} |->
                        IF k = proposal_id THEN <<>> ELSE current_votes[k] ]
         IN  [ success |-> TRUE,
               updated_votes |->
                 IF Contains(withKey[proposal_id], voting_civilization)
                 THEN withKey
                 ELSE [withKey EXCEPT ![proposal_id] =
                         Append(@, voting_civilization)] ]
    ELSE [success |-> TRUE, updated_votes |-> current_votes]

\* resolve_law_votes: props is the list of proposal ids as passed, choice is
\* the index random.choice draws
\* min() where max() is meant
max_votes_of_Min(keys, vote_counts) ==
  -SeqMax([i \in 1..Len(keys) |-> -vote_counts[keys[i]]])

max_votes_of(keys, vote_counts) ==
  SeqMax([i \in 1..Len(keys) |-> vote_counts[keys[i]]])

\* stops at the first id holding max_votes
winners_of_First(keys, vote_counts, max_votes) ==
  LET IsMax(pid) == vote_counts[pid] = max_votes
  IN  SubSeq(SelectSeq(keys, IsMax), 1, 1)

\* the ids holding max_votes, in dict order
winners_of(keys, vote_counts, max_votes) ==
  LET IsMax(pid) == vote_counts[pid] = max_votes
  IN  SelectSeq(keys, IsMax)

resolve_law_votes(props, current_votes, rules, choice) ==
  LET keys == DictKeys(props)
      vote_counts == [ pid \in Range(props) |->
                         IF pid \in DOMAIN current_votes
                         THEN Len(current_votes[pid]) ELSE 0 ]
  IN
  IF keys = <<>>
  THEN [ success |-> FALSE, error |-> "No proposals to resolve",
         has_tied |-> FALSE, tied_proposals |-> <<>>, winning_id |-> NoId,
         vote_counts |-> vote_counts, tie_occurred |-> FALSE ]
  ELSE
    LET max_votes == max_votes_of(keys, vote_counts)
        winners == winners_of(keys, vote_counts, max_votes)
        tiebreaker == rules.tiebreaker
    IN
    IF Len(winners) # 1 /\ tiebreaker = "none"
    THEN [ success |-> FALSE, error |-> "Tied vote with no tiebreaker rule",
           has_tied |-> TRUE, tied_proposals |-> winners, winning_id |-> NoId,
           vote_counts |-> vote_counts, tie_occurred |-> TRUE ]
    ELSE
      [ success |-> TRUE, error |-> None,
        has_tied |-> FALSE, tied_proposals |-> <<>>,
        winning_id |->
          IF Len(winners) = 1 THEN winners[1]
          ELSE IF tiebreaker = "random"
               THEN winners[((choice - 1) % Len(winners)) + 1]
          ELSE IF tiebreaker = "oldest_first" THEN winners[1]
          ELSE NoId,
        vote_counts |-> vote_counts,
        tie_occurred |-> Len(winners) > 1 ]

\* same-target test with the comparisons inverted
SameTarget_Inverted(new_law, existing_law) ==
  LET new_effect_type == new_law.effects.type IN
  IF new_effect_type \in {"resource_tax", "route_tax"}
     /\ existing_law.effects.type \in {"resource_tax", "route_tax"}
  THEN Get(new_law.parameters, "RESOURCE_TYPE")
         # Get(existing_law.parameters, "RESOURCE_TYPE")
  ELSE IF new_effect_type = "project_restriction"
  THEN Get(new_law.parameters, "PROJECT_NAME")
         # Get(existing_law.parameters, "PROJECT_NAME")
  ELSE FALSE

\* the type-specific same-target test of check_law_conflicts
SameTarget(new_law, existing_law) ==
  LET new_effect_type == new_law.effects.type IN
  IF new_effect_type \in {"resource_tax", "route_tax"}
     /\ existing_law.effects.type \in {"resource_tax", "route_tax"}
  THEN Get(new_law.parameters, "RESOURCE_TYPE")
         = Get(existing_law.parameters, "RESOURCE_TYPE")
  ELSE IF new_effect_type = "project_restriction"
  THEN Get(new_law.parameters, "PROJECT_NAME")
         = Get(existing_law.parameters, "PROJECT_NAME")
  ELSE FALSE

\* check_law_conflicts without the type-specific target comparison
check_law_conflicts_AnyTarget(new_law, existing_laws) ==
  LET Conflicting(existing_law) ==
        /\ new_law.category = existing_law.category
        /\ new_law.effects.type = existing_law.effects.type
  IN  SelectSeq(existing_laws, Conflicting)

\* check_law_conflicts: the existing laws that conflict, in the given order
check_law_conflicts(new_law, existing_laws) ==
  LET Conflicting(existing_law) ==
        /\ new_law.category = existing_law.category
        /\ new_law.effects.type = existing_law.effects.type
        /\ SameTarget(new_law, existing_law)
  IN  SelectSeq(existing_laws, Conflicting)

\* dict.get(key, default)
GetOr(d, key, default) == IF key \in DOMAIN d THEN d[key] ELSE default

\* float(law["parameters"].get(name, 0)): the value in tenths, NaN, or
\* ValueError
FloatParam(law, name) ==
  IF name \notin DOMAIN law.parameters
  THEN [raised |-> FALSE, nan |-> FALSE, val |-> 0]
  ELSE LET v == law.parameters[name] IN
       IF v \in NaNStrings THEN [raised |-> FALSE, nan |-> TRUE, val |-> 0]
       ELSE IF v \in DOMAIN FloatOf
       THEN [raised |-> FALSE, nan |-> FALSE, val |-> FloatOf[v]]
       ELSE [raised |-> TRUE, nan |-> FALSE, val |-> 0]

\* int(law["parameters"].get(name, 0)): the whole number, or ValueError
\* (int() parses neither "nan" nor "150.5")
IntParam(law, name) ==
  IF name \notin DOMAIN law.parameters THEN [raised |-> FALSE, val |-> 0]
  ELSE LET v == law.parameters[name] IN
       IF v \in IntStrings
       THEN [raised |-> FALSE, val |-> FloatOf[v] \div Tenths]
       ELSE [raised |-> TRUE, val |-> 0]

\* effects["tax_percentage"] = float(...): the sum replaced by the last tax
AddTax_Overwrite(effects, f) ==
  IF f.raised THEN [effects EXCEPT !.raised = TRUE]
  ELSE [effects EXCEPT !.tax_is_nan = f.nan,
                       !.tax_percentage = f.val,
                       !.tax_ulps = 0]

\* effects["tax_percentage"] += float(...): tax_percentage is in tenths,
\* tax_ulps the rounding of the floating-point sum
AddTax(effects, f) ==
  IF f.raised THEN [effects EXCEPT !.raised = TRUE]
  ELSE [effects EXCEPT !.tax_is_nan = @ \/ f.nan,
                       !.tax_percentage = @ + f.val,
                       !.tax_ulps =
                         FloatAddUlps(effects.tax_percentage, @, f.val)]

\* effects["resource_requirements"][resource_type] += amount, the entry
\* starting at 0
AddRequirement(effects, resource_type, amount) ==
  LET old == effects.resource_requirements IN
  [effects EXCEPT !.resource_requirements =
     [ k \in DOMAIN old \cup {resource_type} |->
         (IF k \in DOMAIN old THEN old[k] ELSE 0)
           + (IF k = resource_type THEN amount ELSE 0) ]]

\* the licensing step shared by project_restriction and component_licensing
AddLicense(effects, law) ==
  LET license_cost == IntParam(law, "LICENSE_COST")
      resource_type == Get(law.parameters, "RESOURCE_TYPE")
  IN  IF license_cost.raised THEN [effects EXCEPT !.raised = TRUE]
      ELSE AddRequirement(
             [effects EXCEPT !.license_cost = @ + license_cost.val],
             resource_type, license_cost.val)

\* the body of the loop of calculate_law_effects for one law
apply_law(effects, law, context) ==
  LET action_type == Get(context, "action_type")
      law_type == law.effects.type
      law_applies_to == law.effects.applies_to
  IN
  IF effects.raised THEN effects
  ELSE IF action_type = "trade" /\ law_applies_to # "trade" THEN effects
  ELSE IF /\ action_type = "project_development"
          /\ law_applies_to \notin {"specific_project", "universal_projects"}
  THEN effects
  ELSE IF law_type = "resource_tax" /\ action_type = "trade"
  THEN LET taxed_resource == Get(law.parameters, "RESOURCE_TYPE") IN
       IF taxed_resource = Get(context, "resource_type")
          \/ taxed_resource = "ALL"
       THEN AddTax(effects, FloatParam(law, "TAX_PERCENTAGE"))
       ELSE effects
  ELSE IF law_type = "route_tax" /\ action_type = "trade"
  THEN IF Get(law.parameters, "REGION") \in GetOr(context, "route", {})
       THEN AddTax(effects, FloatParam(law, "TAX_PERCENTAGE"))
       ELSE effects
  ELSE IF law_type = "project_restriction"
          /\ action_type = "project_development"
  THEN IF Get(law.parameters, "PROJECT_NAME") = Get(context, "project_name")
       THEN AddLicense(effects, law)
       ELSE effects
  ELSE IF law_type = "component_licensing" /\ action_type = "tech_development"
  THEN IF Get(law.parameters, "UBER_TECH_COMPONENT")
            = Get(context, "component_name")
       THEN AddLicense(effects, law)
       ELSE effects
  ELSE IF law_type = "chrono_shard_fee"
          /\ action_type = "chrono_shard_transaction"
  THEN LET threshold == IntParam(law, "THRESHOLD") IN
       IF threshold.raised THEN [effects EXCEPT !.raised = TRUE]
       ELSE IF GetOr(context, "amount", 0) > threshold.val
       THEN AddTax(effects, FloatParam(law, "FEE_PERCENTAGE"))
       ELSE effects
  ELSE IF law_type = "black_market_penalty" /\ action_type = "black_market"
  THEN LET region == Get(law.parameters, "REGION") IN
       IF region = Get(context, "region") \/ region = "ALL"
       THEN LET resource_type == Get(law.parameters, "RESOURCE_TYPE")
                penalty == IntParam(law, "PENALTY")
            IN  IF penalty.raised THEN [effects EXCEPT !.raised = TRUE]
                ELSE [ AddRequirement(effects, resource_type, penalty.val)
                         EXCEPT !.restrictions =
                           Append(@, [type |-> "black_market_penalty",
                                      region |-> region,
                                      penalty |-> penalty.val,
                                      resource_type |-> resource_type]) ]
       ELSE effects
  ELSE IF law_type = "project_tax" /\ action_type = "project_completion"
  THEN AddTax(effects, FloatParam(law, "TAX_PERCENTAGE"))
  ELSE IF law_type = "benefit_sharing" /\ action_type = "project_benefits"
  THEN LET project_name == Get(law.parameters, "PROJECT_NAME") IN
       IF project_name = Get(context, "project_name")
       THEN LET duration == IntParam(law, "DURATION") IN
            IF duration.raised THEN [effects EXCEPT !.raised = TRUE]
            ELSE [effects EXCEPT !.restrictions =
                    Append(@, [type |-> "benefit_sharing",
                               project |-> project_name,
                               beneficiaries |->
                                 GetOr(law.parameters, "BENEFICIARIES", <<>>),
                               duration |-> duration.val])]
       ELSE effects
  ELSE effects

\* the accumulator after the laws of active_laws, in list order
RECURSIVE accumulate(_, _)
accumulate(active_laws, context) ==
  IF active_laws = <<>>
  THEN [ raised |-> FALSE, tax_is_nan |-> FALSE, tax_percentage |-> 0,
         tax_ulps |-> 0, license_cost |-> 0, resource_requirements |-> <<>>,
         restrictions |-> <<>> ]
  ELSE apply_law(accumulate(SubSeq(active_laws, 1, Len(active_laws) - 1),
                            context),
                 active_laws[Len(active_laws)], context)

\* the first definition of calculate_law_effects: it returns inside the loop,
\* after the first law, and returns no accumulator for an empty list
calculate_law_effects_First(active_laws, context) ==
  IF active_laws = <<>>
  THEN [accumulate(<<>>, context) EXCEPT !.raised = TRUE]
  ELSE accumulate(SubSeq(active_laws, 1, 1), context)

\* calculate_law_effects (the second definition, which replaces the first):
\* min(tax, 100) keeps a NaN, since 100 < NaN is false
calculate_law_effects(active_laws, context) ==
  LET effects == accumulate(active_laws, context) IN
  IF effects.raised \/ effects.tax_is_nan THEN effects
  ELSE IF \/ 100 * Tenths < effects.tax_percentage
          \/ 100 * Tenths = effects.tax_percentage /\ 0 < effects.tax_ulps
  THEN [effects EXCEPT !.tax_percentage = 100 * Tenths, !.tax_ulps = 0]
  ELSE effects

\* ------------------------------------------------------------------- Init
NoRequest == [op |-> "init", game_id |-> NoId, status |-> "ok"]

Init ==
  /\ games = {1}
  /\ current_round = [g \in GameIds |-> InitialRound]
  /\ proposals = <<>>
  /\ laws = <<>>
  /\ voting_rules = DefaultRules
  /\ pending = {}
  /\ last = NoRequest

\* ------------------------------------------------------------ crud writes
\* crud.create_law_proposal: the row inserted for a service payload
NewProposalRow(g, payload) ==
  [ id |-> Len(proposals) + 1,
    game_id |-> g,
    template_id |-> payload.template_id,
    parameters |-> payload.parameters,
    category |-> payload.category,
    effects |-> payload.effects,
    proposing_civilization |-> payload.proposing_civilization,
    round_number |-> current_round[g],
    votes |-> payload.votes ]

\* update_votes without the game_id comparison
update_votes_AnyGame(g, votes) ==
  [ i \in 1..Len(proposals) |->
      IF proposals[i].id \in DOMAIN votes
      THEN [proposals[i] EXCEPT !.votes = votes[proposals[i].id]]
      ELSE proposals[i] ]

\* crud.update_votes: every listed proposal of the game gets its list
update_votes(g, votes) ==
  [ i \in 1..Len(proposals) |->
      IF proposals[i].id \in DOMAIN votes /\ proposals[i].game_id = g
      THEN [proposals[i] EXCEPT !.votes = votes[proposals[i].id]]
      ELSE proposals[i] ]

\* crud.void_law applied to the laws of S, as the resolve endpoint calls it
void_law(table, S, voided_by) ==
  [ i \in 1..Len(table) |->
      IF table[i].id \in S
      THEN [table[i] EXCEPT !.is_active = FALSE, !.voided_by = voided_by]
      ELSE table[i] ]

\* crud.expire_law applied to the laws of S
expire_law(table, S) ==
  [ i \in 1..Len(table) |->
      IF table[i].id \in S
      THEN [table[i] EXCEPT !.is_active = FALSE]
      ELSE table[i] ]

\* enact_law that re-activates the row a proposal already has
enact_law_Upsert(table, proposal, round_number) ==
  IF \E i \in 1..Len(table) : table[i].proposal_id = proposal.id
  THEN [ i \in 1..Len(table) |->
           IF table[i].proposal_id = proposal.id
           THEN [table[i] EXCEPT !.is_active = TRUE,
                                 !.enacted_round = round_number]
           ELSE table[i] ]
  ELSE Append(table,
         [ id |-> Len(table) + 1, game_id |-> proposal.game_id,
           proposal_id |-> proposal.id, template_id |-> proposal.template_id,
           parameters |-> proposal.parameters, category |-> proposal.category,
           effects |-> proposal.effects, enacted_round |-> round_number,
           duration |-> DefaultDuration, is_active |-> TRUE,
           voided_by |-> NoId ])

\* enact_law that leaves the duration column unset
enact_law_NoDuration(table, proposal, round_number) ==
  Append(table,
    [ id |-> Len(table) + 1, game_id |-> proposal.game_id,
      proposal_id |-> proposal.id, template_id |-> proposal.template_id,
      parameters |-> proposal.parameters, category |-> proposal.category,
      effects |-> proposal.effects, enacted_round |-> round_number,
      duration |-> 0, is_active |-> TRUE, voided_by |-> NoId ])

\* crud.enact_law: the row inserted for a proposal
enact_law(table, proposal, round_number) ==
  Append(table,
    [ id |-> Len(table) + 1,
      game_id |-> proposal.game_id,
      proposal_id |-> proposal.id,
      template_id |-> proposal.template_id,
      parameters |-> proposal.parameters,
      category |-> proposal.category,
      effects |-> proposal.effects,
      enacted_round |-> round_number,
      duration |-> DefaultDuration,
      is_active |-> TRUE,
      voided_by |-> NoId ])

\* --------------------------------------------------------------- endpoints
\* Game round advance (crud.game: current_round += 1)
AdvanceRound(g) ==
  /\ current_round[g] < MaxRound
  /\ current_round' = [current_round EXCEPT ![g] = @ + 1]
  /\ last' = [op |-> "advance", game_id |-> g, status |-> "ok"]
  /\ UNCHANGED <<games, proposals, laws, voting_rules, pending>>

\* POST /proposals/
CreateProposal(g, template_id, parameters, civ) ==
  LET result == create_law_proposal(template_id, parameters, civ) IN
  /\ Len(proposals) < MaxProposals
  /\ IF ~result.success
     THEN /\ last' = [op |-> "propose", game_id |-> g, status |-> "rejected",
                      template_id |-> template_id, parameters |-> parameters,
                      errors |-> result.errors]
          /\ UNCHANGED proposals
     ELSE /\ proposals' = Append(proposals, NewProposalRow(g, result.proposal))
          /\ last' = [op |-> "propose", game_id |-> g, status |-> "created",
                      template_id |-> template_id, parameters |-> parameters]
  /\ UNCHANGED <<games, current_round, laws, voting_rules, pending>>

\* POST /votes/
VoteOnLaw(g, proposal_id, civ, vote) ==
  LET current_votes == get_votes_by_game(g)
      result == vote_on_law(proposal_id, civ, vote, current_votes, voting_rules)
      req == [op |-> "vote", game_id |-> g, proposal_id |-> proposal_id,
              voting_civilization |-> civ, vote |-> vote]
  IN
  /\ IF ~result.success
     THEN /\ last' = req @@ [status |-> "rejected"]
          /\ UNCHANGED proposals
     ELSE /\ proposals' = update_votes(g, result.updated_votes)
          /\ last' = req @@ [status |-> "ok"]
  /\ UNCHANGED <<games, current_round, laws, voting_rules, pending>>

\* the query without the is_active filter
ActiveLawRows_All(g) ==
  LET IsOf(law) == law.game_id = g
  IN  SelectSeq(laws, IsOf)

\* the active laws of a game as the query returns them to the handler
ActiveLawRows(g) ==
  LET IsActiveOf(law) == law.game_id = g /\ law.is_active
  IN  SelectSeq(laws, IsActiveOf)

\* POST /resolve/{game_id}/{round_number}
\*   order: the order in which the proposals query returns its rows
\*   choice: the draw of random.choice
\* A commit of void_law or enact_law may fail (IntegrityError): the handler
\* then stops with the earlier commits in place.
ResolveLawVotes(g, round_number, order, choice) ==
  LET current_votes == get_votes_by_game(g)
      result == resolve_law_votes(order, current_votes, voting_rules, choice)
      req == [op |-> "resolve", game_id |-> g, round_number |-> round_number]
      Out(status, winning_id, conflicts, enacted_id) ==
        req @@ [status |-> status, winning_id |-> winning_id,
                conflicts |-> conflicts, enacted_id |-> enacted_id]
  IN
  /\ IF order = <<>>
     THEN /\ last' = Out("no_proposals", NoId, {}, NoId)
          /\ UNCHANGED laws
     ELSE IF ~result.success
     THEN /\ last' = Out(IF result.has_tied THEN "tie" ELSE "failed",
                         NoId, {}, NoId)
          /\ UNCHANGED laws
     ELSE IF result.winning_id = NoId
     THEN \* winning_proposal is None: subscripting it raises
          /\ last' = Out("error", NoId, {}, NoId)
          /\ UNCHANGED laws
     ELSE
       LET winning_proposal == ProposalById(result.winning_id)
           conflicts == check_law_conflicts(winning_proposal, ActiveLawRows(g))
           conflict_ids == { conflicts[i].id : i \in 1..Len(conflicts) }
       IN
       /\ Len(laws) < MaxLaws
       /\ \/ \* every commit succeeds
             /\ laws' = enact_law(void_law(laws, conflict_ids, NoId),
                                  winning_proposal, round_number)
             /\ last' = Out("success", winning_proposal.id, conflict_ids,
                            Len(laws) + 1)
          \/ \* the commit of enact_law fails
             /\ laws' = void_law(laws, conflict_ids, NoId)
             /\ last' = Out("error", winning_proposal.id, conflict_ids, NoId)
          \/ \* the commit of a void_law fails, after those of done
             \E done \in SUBSET conflict_ids :
               /\ done # conflict_ids
               /\ laws' = void_law(laws, done, NoId)
               /\ last' = Out("error", winning_proposal.id, conflict_ids, NoId)
  /\ UNCHANGED <<games, current_round, proposals, voting_rules, pending>>

\* expiration test with > where >= is meant
LawIsDue_Strict(law, round_number) ==
  LET duration == IF law.duration = 0 THEN FallbackDuration ELSE law.duration
  IN  round_number - law.enacted_round > duration

\* the expiration test of check_law_expiration
LawIsDue(law, round_number) ==
  LET duration == IF law.duration = 0 THEN FallbackDuration ELSE law.duration
  IN  round_number - law.enacted_round >= duration

\* POST /expire-check/{game_id}/{round_number}
\* A commit of expire_law may fail: the handler then stops with the laws of
\* done expired.
CheckLawExpiration(g, round_number) ==
  LET active_laws == get_active_laws(g)
      due == { lid \in active_laws : LawIsDue(LawById(lid), round_number) }
  IN
  /\ \E done \in SUBSET due :
       /\ laws' = expire_law(laws, done)
       /\ last' = [op |-> "expire", game_id |-> g,
                   round_number |-> round_number,
                   status |-> IF done = due THEN "ok" ELSE "error"]
  /\ UNCHANGED <<games, current_round, proposals, voting_rules, pending>>

\* ------------------------------------------------------------------- Next
Next ==
  \/ \E g \in games : AdvanceRound(g)
  \/ \E g \in games, t \in TemplateIds, civ \in Civilizations :
       \E ps \in RequestParameters(t) : CreateProposal(g, t, ps, civ)
  \/ \E g \in games, pid \in 1..MaxProposals, civ \in Civilizations,
        v \in BOOLEAN : VoteOnLaw(g, pid, civ, v)
  \/ \E g \in games, r \in 1..MaxRound :
       \E order \in Orderings(get_law_proposals(g, r)),
          choice \in 1..MaxProposals :
            ResolveLawVotes(g, r, order, choice)
  \/ \E g \in games, r \in CheckRounds : CheckLawExpiration(g, r)

Spec == Init /\ [][Next]_vars

\* ------------------------------------- resolve_law_votes as a pure function
\* vote lists a ledger entry may hold
VoteLists == { <<>>, <<"Thrizoth">>, <<"Thrizoth", "Vasku">> }

\* lists of distinct proposal ids, in any order
ProposalLists ==
  UNION { Orderings(S) : S \in SUBSET (1..MaxListed) }

Ledgers ==
  UNION { [D -> VoteLists] : D \in SUBSET (1..MaxListed) }

InitResolve ==
  /\ games = {}
  /\ current_round = [g \in GameIds |-> InitialRound]
  /\ proposals = <<>>
  /\ laws = <<>>
  /\ voting_rules \in [tiebreaker : Tiebreakers, abstain_allowed : {FALSE}]
  /\ pending = {}
  /\ \E props \in ProposalLists, ledger \in Ledgers, choice \in 1..MaxListed :
       last = [op |-> "resolve_call", proposals |-> props,
               current_votes |-> ledger, choice |-> choice]

CallResolve ==
  /\ last.op = "resolve_call"
  /\ last' = [last EXCEPT !.op = "resolve_return"] @@
             [result |-> resolve_law_votes(last.proposals, last.current_votes,
                                           voting_rules, last.choice)]
  /\ UNCHANGED <<games, current_round, proposals, laws, voting_rules, pending>>

SpecResolve == InitResolve /\ [][CallResolve]_vars

\* ------------------------------------- voting with either abstention setting
\* proposal and vote requests under a configuration that allows or forbids
\* abstention
InitBallot ==
  /\ games = {1}
  /\ current_round = [g \in GameIds |-> InitialRound]
  /\ proposals = <<>>
  /\ laws = <<>>
  /\ voting_rules \in [tiebreaker : {"none"}, abstain_allowed : BOOLEAN]
  /\ pending = {}
  /\ last = NoRequest

NextBallot ==
  \/ \E g \in games : AdvanceRound(g)
  \/ \E g \in games, t \in TemplateIds, civ \in Civilizations :
       \E ps \in RequestParameters(t) : CreateProposal(g, t, ps, civ)
  \/ \E g \in games, pid \in 1..MaxProposals, civ \in Civilizations,
        v \in BOOLEAN : VoteOnLaw(g, pid, civ, v)

SpecBallot == InitBallot /\ [][NextBallot]_vars

\* ----------------------------------- check_law_conflicts as a pure function
MaxExisting == 2

\* parameter sets of the laws handed to check_law_conflicts
ConflictParameters(t) ==
  CASE t = "resource_tax_law" ->
         { [RESOURCE_TYPE |-> r, TAX_PERCENTAGE |-> "15"] :
             r \in {"Neutronium", "Energy"} }
    [] t = "trade_route_taxation" ->
         { [REGION |-> rg, TAX_PERCENTAGE |-> "10"] : rg \in {"Alpha", "Beta"} }
    [] t = "project_development_ban" ->
         { [PROJECT_NAME |-> pn, LICENSE_COST |-> "200", RESOURCE_TYPE |-> r] :
             pn \in {"Dyson Sphere", "Star Forge"},
             r \in {"Crystal", "Neutronium"} }

\* laws as the service creates them from a template and valid parameters
LawDicts ==
  UNION { { create_law_proposal(t, ps, "Thrizoth").proposal :
              ps \in ConflictParameters(t) } : t \in TemplateIds }

LawLists == UNION { [1..n -> LawDicts] : n \in 0..MaxExisting }

InitConflicts ==
  /\ games = {}
  /\ current_round = [g \in GameIds |-> InitialRound]
  /\ proposals = <<>>
  /\ laws = <<>>
  /\ voting_rules = DefaultRules
  /\ pending = {}
  /\ \E new_law \in LawDicts, existing_laws \in LawLists :
       last = [op |-> "conflicts_call", new_law |-> new_law,
               existing_laws |-> existing_laws]

CallConflicts ==
  /\ last.op = "conflicts_call"
  /\ last' = [last EXCEPT !.op = "conflicts_return"] @@
             [result |-> check_law_conflicts(last.new_law, last.existing_laws)]
  /\ UNCHANGED <<games, current_round, proposals, laws, voting_rules, pending>>

SpecConflicts == InitConflicts /\ [][CallConflicts]_vars

\* ------------------------------------------------------------- two games
\* both games exist; every request may name either game
InitGames ==
  /\ games = GameIds
  /\ current_round = [g \in GameIds |-> InitialRound]
  /\ proposals = <<>>
  /\ laws = <<>>
  /\ voting_rules = DefaultRules
  /\ pending = {}
  /\ last = NoRequest

\* the requests of Next, with resource-tax proposals of one proposer only
NextGames ==
  \/ \E g \in games : AdvanceRound(g)
  \/ \E g \in games :
       \E ps \in RequestParameters("resource_tax_law") :
         CreateProposal(g, "resource_tax_law", ps, "Thrizoth")
  \/ \E g \in games, pid \in 1..MaxProposals, civ \in Civilizations,
        v \in BOOLEAN : VoteOnLaw(g, pid, civ, v)
  \/ \E g \in games, r \in 1..MaxRound :
       \E order \in Orderings(get_law_proposals(g, r)),
          choice \in 1..MaxProposals :
            ResolveLawVotes(g, r, order, choice)
  \/ \E g \in games, r \in CheckRounds : CheckLawExpiration(g, r)

SpecGames == InitGames /\ [][NextGames]_vars

\* --------------------------------- calculate_law_effects as a pure function
MaxActive == 4

\* parameter sets offered to the service; validation decides which become laws
EffectParameters(t) ==
  CASE t = "resource_tax_law" ->
         { [RESOURCE_TYPE |-> r, TAX_PERCENTAGE |-> x] :
             r \in {"Neutronium", "ALL"}, x \in {"30", "nan", "-5"} }
    [] t = "trade_route_taxation" ->
         { [REGION |-> "Alpha", TAX_PERCENTAGE |-> "10"] }
    [] t = "project_development_ban" ->
         { [PROJECT_NAME |-> "Dyson Sphere", LICENSE_COST |-> "200",
            RESOURCE_TYPE |-> "Crystal"],
           [PROJECT_NAME |-> "Dyson Sphere", LICENSE_COST |-> "200",
            RESOURCE_TYPE |-> "Neutronium"],
           [PROJECT_NAME |-> "Star Forge", LICENSE_COST |-> "200",
            RESOURCE_TYPE |-> "Crystal"],
           [PROJECT_NAME |-> "Dyson Sphere", LICENSE_COST |-> "150.5",
            RESOURCE_TYPE |-> "Crystal"] }

\* the laws the service creates from the parameter sets that pass validation
EffectLaws ==
  UNION { { create_law_proposal(t, ps, "Thrizoth").proposal :
              ps \in { q \in EffectParameters(t) :
                         validate_parameters(t, q) = <<>> } } :
          t \in TemplateIds }

ActiveLawLists == UNION { [1..n -> EffectLaws] : n \in 0..MaxActive }

Contexts ==
  { [action_type |-> "trade", resource_type |-> "Neutronium",
     route |-> {"Alpha", "Beta"}],
    [action_type |-> "trade", resource_type |-> "Crystal",
     route |-> {"Beta", "Gamma"}],
    [action_type |-> "project_development", project_name |-> "Dyson Sphere"],
    [resource_type |-> "Neutronium"] }

InitEffects ==
  /\ games = {}
  /\ current_round = [g \in GameIds |-> InitialRound]
  /\ proposals = <<>>
  /\ laws = <<>>
  /\ voting_rules = DefaultRules
  /\ pending = {}
  /\ \E active_laws \in ActiveLawLists, context \in Contexts :
       last = [op |-> "effects_call", active_laws |-> active_laws,
               context |-> context]

CallEffects ==
  /\ last.op = "effects_call"
  /\ last' = [last EXCEPT !.op = "effects_return"] @@
             [result |-> calculate_law_effects(last.active_laws, last.context)]
  /\ UNCHANGED <<games, current_round, proposals, laws, voting_rules, pending>>

SpecEffects == InitEffects /\ [][CallEffects]_vars

\* ---------------------------- calculate_law_effects on permuted law lists
\* parameter sets with fractional percentages, offered to the service
PermuteParameters(t) ==
  CASE t = "resource_tax_law" ->
         { [RESOURCE_TYPE |-> "Neutronium", TAX_PERCENTAGE |-> "10.1"],
           [RESOURCE_TYPE |-> "ALL", TAX_PERCENTAGE |-> "20.2"] }
    [] t = "trade_route_taxation" ->
         { [REGION |-> "Alpha", TAX_PERCENTAGE |-> "5.3"] }
    [] t = "project_development_ban" ->
         { [PROJECT_NAME |-> "Dyson Sphere", LICENSE_COST |-> "200",
            RESOURCE_TYPE |-> "Crystal"] }

PermuteLaws ==
  UNION { { create_law_proposal(t, ps, "Thrizoth").proposal :
              ps \in { q \in PermuteParameters(t) :
                         validate_parameters(t, q) = <<>> } } :
          t \in TemplateIds }

\* the active laws of a game as two queries may return them: the same rows
\* in two orders
InitPermute ==
  /\ games = {}
  /\ current_round = [g \in GameIds |-> InitialRound]
  /\ proposals = <<>>
  /\ laws = <<>>
  /\ voting_rules = DefaultRules
  /\ pending = {}
  /\ \E S \in SUBSET PermuteLaws, context \in Contexts :
       \E active_laws \in Orderings(S), permuted \in Orderings(S) :
         last = [op |-> "permute_call", active_laws |-> active_laws,
                 permuted |-> permuted, context |-> context]

CallPermute ==
  /\ last.op = "permute_call"
  /\ last' = [last EXCEPT !.op = "permute_return"] @@
             [result |-> calculate_law_effects(last.active_laws, last.context),
              permuted_result |->
                calculate_law_effects(last.permuted, last.context)]
  /\ UNCHANGED <<games, current_round, proposals, laws, voting_rules, pending>>

SpecPermute == InitPermute /\ [][CallPermute]_vars

\* ------------------------------------------ validate_parameters as called
UnknownTemplate == "non_existent"

\* values a request may carry for a parameter of the given type
ParameterValues(type) ==
  IF type = "range" THEN DOMAIN FloatOf \cup NaNStrings \cup {"abc"}
  ELSE {"Neutronium"}

\* parameter sets for the parameter definitions defs: every definition is
\* either left out or given one of the values of its type
RECURSIVE ParameterSets(_)
ParameterSets(defs) ==
  IF defs = <<>> THEN { <<>> }
  ELSE LET rest == ParameterSets(Tail(defs))
           name == Head(defs).name
       IN  rest \cup { (name :> v) @@ ps :
                         v \in ParameterValues(Head(defs).type), ps \in rest }

InitValidate ==
  /\ games = {}
  /\ current_round = [g \in GameIds |-> InitialRound]
  /\ proposals = <<>>
  /\ laws = <<>>
  /\ voting_rules = DefaultRules
  /\ pending = {}
  /\ \E template_id \in TemplateIds \cup {UnknownTemplate} :
       \E parameters \in
            (IF template_id \in TemplateIds
             THEN ParameterSets(law_templates[template_id].parameters)
             ELSE ParameterSets(law_templates.resource_tax_law.parameters)) :
         last = [op |-> "validate_call", template_id |-> template_id,
                 parameters |-> parameters]

CallValidate ==
  /\ last.op = "validate_call"
  /\ last' = [last EXCEPT !.op = "validate_return"] @@
             [errors |-> validate_parameters(last.template_id, last.parameters)]
  /\ UNCHANGED <<games, current_round, proposals, laws, voting_rules, pending>>

SpecValidate == InitValidate /\ [][CallValidate]_vars

\* ------------------------------------- proposals that may fail validation
\* the requests of the model, valid and invalid, as <<template_id, parameters>>
ProposalRequests ==
  UNION { { <<t, ps>> : ps \in RequestParameters(t) } : t \in TemplateIds }
  \cup { <<UnknownTemplate,
           [RESOURCE_TYPE |-> "Neutronium", TAX_PERCENTAGE |-> "15"]>>,
         <<"resource_tax_law",
           [RESOURCE_TYPE |-> "Neutronium", TAX_PERCENTAGE |-> "200"]>>,
         <<"resource_tax_law",
           [RESOURCE_TYPE |-> "Neutronium", TAX_PERCENTAGE |-> "abc"]>>,
         <<"resource_tax_law", [RESOURCE_TYPE |-> "Neutronium"]>> }

NextPropose ==
  \/ \E g \in games : AdvanceRound(g)
  \/ \E g \in games, rq \in ProposalRequests, civ \in Civilizations :
       CreateProposal(g, rq[1], rq[2], civ)

SpecPropose == Init /\ [][NextPropose]_vars

\* ------------------------------------------------------- render_law_text
\* template_text of the templates, cut into literal pieces and placeholders
template_text ==
  [ resource_tax_law |->
      << "Trading of ", "[RESOURCE_TYPE]", " requires a tax payment of ",
         "[TAX_PERCENTAGE]", "% to the Kokoro Conclave treasury." >>,
    trade_route_taxation |->
      << "Trade passing through ", "[REGION]", " incurs a ",
         "[TAX_PERCENTAGE]",
         "% tariff payable to the Kokoro Conclave treasury." >>,
    project_development_ban |->
      << "Development of ", "[PROJECT_NAME]",
         " is prohibited without a special license costing ",
         "[LICENSE_COST]", " units of ", "[RESOURCE_TYPE]", "." >> ]

\* f"[{param_name}]"
PlaceholderOf ==
  [ RESOURCE_TYPE |-> "[RESOURCE_TYPE]", TAX_PERCENTAGE |-> "[TAX_PERCENTAGE]",
    REGION |-> "[REGION]", PROJECT_NAME |-> "[PROJECT_NAME]",
    LICENSE_COST |-> "[LICENSE_COST]" ]

\* text.replace(placeholder, value) on a text cut into pieces
Replace(text, placeholder, value) ==
  [ i \in 1..Len(text) |-> IF text[i] = placeholder THEN value ELSE text[i] ]

\* the loop over parameters.items(), the names in the order of the dict
RECURSIVE ReplaceAll(_, _, _)
ReplaceAll(text, parameters, names) ==
  IF names = <<>> THEN text
  ELSE ReplaceAll(Replace(text, PlaceholderOf[Head(names)],
                          parameters[Head(names)]),
                  parameters, Tail(names))

\* LawSystemConfig.render_law_text; names is the key order of parameters
render_law_text(template_id, parameters, names) ==
  IF template_id \notin TemplateIds THEN <<>>
  ELSE ReplaceAll(template_text[template_id], parameters, names)

\* parameter sets of the render requests; a name of a resource, region or
\* project is any string
RenderParameters(t) ==
  LET Names == {"Neutronium", "[RESOURCE_TYPE]", "[TAX_PERCENTAGE]"} IN
  CASE t = "resource_tax_law" ->
         { [RESOURCE_TYPE |-> r, TAX_PERCENTAGE |-> x] :
             r \in Names, x \in {"15", "30", "200"} }
    [] t = "trade_route_taxation" ->
         { [REGION |-> r, TAX_PERCENTAGE |-> x] :
             r \in Names, x \in {"15", "25", "30"} }
    [] t = "project_development_ban" ->
         { [PROJECT_NAME |-> pn, LICENSE_COST |-> "200", RESOURCE_TYPE |-> r] :
             pn \in {"Dyson Sphere", "[RESOURCE_TYPE]"}, r \in Names }

InitRender ==
  /\ games = {}
  /\ current_round = [g \in GameIds |-> InitialRound]
  /\ proposals = <<>>
  /\ laws = <<>>
  /\ voting_rules = DefaultRules
  /\ pending = {}
  /\ \E template_id \in TemplateIds :
       \E parameters \in { q \in RenderParameters(template_id) :
                              validate_parameters(template_id, q) = <<>> } :
         \E names \in Orderings(DOMAIN parameters) :
           last = [op |-> "render_call", template_id |-> template_id,
                   parameters |-> parameters, names |-> names]

\* the text is rendered, and the replacements are applied to it once more
CallRender ==
  /\ last.op = "render_call"
  /\ LET text == render_law_text(last.template_id, last.parameters, last.names)
     IN  last' = [last EXCEPT !.op = "render_return"] @@
                 [law_text |-> text,
                  rendered_again |->
                    ReplaceAll(text, last.parameters, last.names)]
  /\ UNCHANGED <<games, current_round, proposals, laws, voting_rules, pending>>

SpecRender == InitRender /\ [][CallRender]_vars

\* -------------------------------- vote requests handled by several workers
MaxPending == 2

\* POST /votes/ up to the read of the ledger (get_votes_by_game)
VoteRead(g, proposal_id, civ, vote) ==
  /\ Cardinality(pending) < MaxPending
  /\ \A rq \in pending : rq.voting_civilization # civ
  /\ pending' = pending \cup
       { [ game_id |-> g, proposal_id |-> proposal_id,
           voting_civilization |-> civ, vote |-> vote,
           current_votes |-> get_votes_by_game(g) ] }
  /\ last' = [op |-> "vote_read", game_id |-> g, status |-> "ok"]
  /\ UNCHANGED <<games, current_round, proposals, laws, voting_rules>>

\* POST /votes/ from the service call to the write-back (update_votes)
VoteWrite(rq) ==
  LET result == vote_on_law(rq.proposal_id, rq.voting_civilization, rq.vote,
                            rq.current_votes, voting_rules)
      req == [op |-> "vote", game_id |-> rq.game_id,
              proposal_id |-> rq.proposal_id,
              voting_civilization |-> rq.voting_civilization,
              vote |-> rq.vote]
  IN
  /\ pending' = pending \ {rq}
  /\ IF ~result.success
     THEN /\ last' = req @@ [status |-> "rejected"]
          /\ UNCHANGED proposals
     ELSE /\ proposals' = update_votes(rq.game_id, result.updated_votes)
          /\ last' = req @@ [status |-> "ok"]
  /\ UNCHANGED <<games, current_round, laws, voting_rules>>

NextWorkers ==
  \/ \E g \in games, civ \in Civilizations :
       \E ps \in RequestParameters("resource_tax_law") :
         CreateProposal(g, "resource_tax_law", ps, civ)
  \/ \E g \in games, civ \in Civilizations :
       \E pid \in get_law_proposals(g, NoId) : VoteRead(g, pid, civ, TRUE)
  \/ \E rq \in pending : VoteWrite(rq)

SpecWorkers == Init /\ [][NextWorkers]_vars

\* ------------------------------------------------------------------ claims
RoundResolved(g, r) ==
  \E j \in 1..Len(laws) : laws[j].game_id = g /\ laws[j].enacted_round = r

\* C1: at most one enacted law exists per proposal, and at most one proposal
\* of each round of a game has been enacted (a repeated resolve enacts no
\* second law).
C1_AtMostOneEnactment ==
  \A i, j \in 1..Len(laws) :
    /\ laws[i].proposal_id = laws[j].proposal_id => i = j
    /\ (laws[i].game_id = laws[j].game_id
          /\ laws[i].enacted_round = laws[j].enacted_round)
         => laws[i].proposal_id = laws[j].proposal_id

\* C2: after a successful resolve every law the conflict detector returned is
\* inactive and its voided_by is the id of the newly enacted law.
C2_ConflictsVoidedByNewLaw ==
  (last.op = "resolve" /\ last.status = "success") =>
    \A c \in last.conflicts :
      /\ ~LawById(c).is_active
      /\ LawById(c).voided_by = last.enacted_id

\* C3: a resolve that fails in a persistence step leaves the enacted laws as
\* they were: no conflicting law is voided without the winner being enacted.
C3_NoPartialEnactment ==
  (last.op = "resolve" /\ last.status = "error") =>
    \A c \in last.conflicts : LawById(c).is_active

\* C4: once a round of a game has been resolved, a vote changes the vote
\* list of no proposal of that round.
C4_NoVoteAfterResolution ==
  [][ last'.op = "vote" =>
        \A i \in 1..Len(proposals) :
          RoundResolved(proposals[i].game_id, proposals[i].round_number)
            => proposals'[i].votes = proposals[i].votes ]_vars

\* C5: a law is created active, and a law that is inactive stays inactive
\* in every step.
C5_DeactivationIrreversible ==
  [][ /\ Len(laws') >= Len(laws)
      /\ \A i \in 1..Len(laws) : ~laws[i].is_active => ~laws'[i].is_active
      /\ \A i \in (Len(laws) + 1)..Len(laws') : laws'[i].is_active ]_vars

\* an inactive law stayed inactive while a later resolve enacted another law
C5_Witness ==
  /\ last.op = "resolve" /\ last.status = "success"
  /\ \E i \in 1..Len(laws) :
       /\ ~laws[i].is_active
       /\ laws[i].id \notin last.conflicts
       /\ laws[i].proposal_id = last.winning_id

\* the target a law taxes or restricts
TargetOf(law) ==
  CASE law.effects.type = "resource_tax" -> Get(law.parameters, "RESOURCE_TYPE")
    [] law.effects.type = "route_tax" -> Get(law.parameters, "REGION")
    [] law.effects.type = "project_restriction" ->
         Get(law.parameters, "PROJECT_NAME")
    [] OTHER -> None

C7_ExpireIffDue ==
  [][ (last'.op = "expire" /\ last'.status = "ok") =>
        /\ Len(laws') = Len(laws)
        /\ \A i \in 1..Len(laws) :
             IF laws[i].is_active /\ laws[i].game_id = last'.game_id
             THEN /\ laws'[i].is_active
                       = ~(last'.round_number - laws[i].enacted_round
                             >= laws[i].duration)
                  /\ laws'[i] = [laws[i] EXCEPT !.is_active = laws'[i].is_active]
             ELSE laws'[i] = laws[i] ]_vars

\* an expire-check at round 5 has completed and the game's only law, enacted
\* at round 2 with duration 3, is inactive
C7_Witness ==
  /\ last.op = "expire" /\ last.status = "ok" /\ last.round_number = 5
  /\ Len(laws) = 1
  /\ laws[1].enacted_round = 2 /\ laws[1].duration = 3
  /\ ~laws[1].is_active

\* the proposals of a call that hold the maximum number of votes
VotesFor(pid) ==
  IF pid \in DOMAIN last.current_votes
  THEN Cardinality(Range(last.current_votes[pid])) ELSE 0

TopProposals ==
  { p \in Range(last.proposals) :
      \A q \in Range(last.proposals) : VotesFor(q) <= VotesFor(p) }

\* C8: resolve on a non-empty list in which exactly one proposal holds the
\* maximum vote count succeeds with that proposal, reports every listed
\* proposal's vote count (0 without ledger entry) and tie_occurred = false.
C8_UniqueMaximumWins ==
  (last.op = "resolve_return" /\ Cardinality(TopProposals) = 1) =>
    /\ last.result.success
    /\ last.result.winning_id \in TopProposals
    /\ DOMAIN last.result.vote_counts = Range(last.proposals)
    /\ \A p \in Range(last.proposals) : last.result.vote_counts[p] = VotesFor(p)
    /\ ~last.result.tie_occurred

\* a call with several proposals, one of them ahead, has returned
C8_Witness ==
  /\ last.op = "resolve_return"
  /\ Cardinality(Range(last.proposals)) >= 2
  /\ Cardinality(TopProposals) = 1
  /\ \E p \in Range(last.proposals) : p \notin DOMAIN last.current_votes
  /\ last.result.success

\* C9: with tie-break none, resolve on proposals of which several hold the
\* maximum fails with exactly their ids as tied_proposals; resolve on an
\* empty list fails with "No proposals to resolve".
C9_TieWithoutTiebreakerFails ==
  last.op = "resolve_return" =>
    /\ (voting_rules.tiebreaker = "none" /\ Cardinality(TopProposals) > 1) =>
         /\ ~last.result.success
         /\ last.result.has_tied
         /\ Range(last.result.tied_proposals) = TopProposals
         /\ Len(last.result.tied_proposals) = Cardinality(TopProposals)
    /\ last.proposals = <<>> =>
         /\ ~last.result.success
         /\ ~last.result.has_tied
         /\ last.result.error = "No proposals to resolve"

\* a tied call under tie-break none has returned its tied set
C9_Witness ==
  /\ last.op = "resolve_return"
  /\ voting_rules.tiebreaker = "none"
  /\ Cardinality(TopProposals) = 2
  /\ Cardinality(Range(last.proposals)) = 3
  /\ ~last.result.success

\* the listed proposal created first among those holding the maximum
\* (ids are handed out in creation order)
OldestTop == CHOOSE p \in TopProposals : \A q \in TopProposals : p <= q

\* C10: with tie-break oldest_first, resolve selects among the tied proposals
\* the one created first.
C10_OldestFirstPicksEarliest ==
  ( /\ last.op = "resolve_return"
    /\ voting_rules.tiebreaker = "oldest_first"
    /\ Cardinality(TopProposals) > 1 )
  => (last.result.success /\ last.result.winning_id = OldestTop)

\* C11: the proposing civilization is in the vote list of every proposal,
\* from its creation on and after every vote of any civilization.
C11_ProposerAlwaysInVotes ==
  \A i \in 1..Len(proposals) :
    Contains(proposals[i].votes, proposals[i].proposing_civilization)

\* another civilization has voted for a proposal, whose list now holds the
\* proposer and that voter
C11_Witness ==
  /\ last.op = "vote" /\ last.status = "ok"
  /\ \E i \in 1..Len(proposals) :
       /\ proposals[i].id = last.proposal_id
       /\ last.voting_civilization # proposals[i].proposing_civilization
       /\ Len(proposals[i].votes) = 2

NoDuplicates(s) == \A i, j \in 1..Len(s) : s[i] = s[j] => i = j

\* C12: an affirmative vote for a proposal of the game succeeds, puts the
\* voter into that proposal's list unless already there, leaves the list as
\* it is when the voter is already there, changes no other list, and no
\* list ever holds a civilization twice.
C12_AffirmativeVoteIdempotent ==
  [][ ( /\ last'.op = "vote" /\ last'.vote
        /\ last'.proposal_id \in get_law_proposals(last'.game_id, NoId) )
      => /\ last'.status = "ok"
         /\ Len(proposals') = Len(proposals)
         /\ \A i \in 1..Len(proposals) :
              /\ IF proposals[i].id = last'.proposal_id
                 THEN proposals'[i] =
                        [proposals[i] EXCEPT !.votes =
                           IF Contains(@, last'.voting_civilization) THEN @
                           ELSE Append(@, last'.voting_civilization)]
                 ELSE proposals'[i] = proposals[i]
              /\ NoDuplicates(proposals'[i].votes) ]_vars

\* the proposer, already in the list, has voted again for its own proposal
\* and the list still holds it once
C12_Witness ==
  /\ last.op = "vote" /\ last.vote /\ last.status = "ok"
  /\ \E i \in 1..Len(proposals) :
       /\ proposals[i].id = last.proposal_id
       /\ proposals[i].game_id = last.game_id
       /\ last.voting_civilization = proposals[i].proposing_civilization
       /\ proposals[i].votes = <<last.voting_civilization>>

\* C13: a vote with vote = false changes no vote list; it is rejected
\* exactly when the configuration forbids abstention and succeeds otherwise.
C13_NegativeVoteChangesNothing ==
  [][ (last'.op = "vote" /\ ~last'.vote)
      => /\ proposals' = proposals
         /\ last'.status = IF voting_rules.abstain_allowed THEN "ok"
                                                            ELSE "rejected" ]_vars

\* with abstention allowed, a civilization absent from a proposal's list has
\* cast a negative vote on it, which succeeded
C13_Witness ==
  /\ last.op = "vote" /\ ~last.vote /\ last.status = "ok"
  /\ voting_rules.abstain_allowed
  /\ \E i \in 1..Len(proposals) :
       /\ proposals[i].id = last.proposal_id
       /\ ~Contains(proposals[i].votes, last.voting_civilization)

\* C14: a vote naming a proposal id that no proposal of the game has does
\* not report success.
C14_UnknownProposalVoteFails ==
  ( /\ last.op = "vote"
    /\ last.proposal_id \notin get_law_proposals(last.game_id, NoId) )
  => last.status # "ok"

\* C15: for a new resource_tax or project_restriction law, check_law_conflicts
\* returns an existing law iff it has the new law's category, effect type and
\* target (RESOURCE_TYPE resp. PROJECT_NAME); it returns nothing else.
C15_ConflictIffSameTarget ==
  ( /\ last.op = "conflicts_return"
    /\ last.new_law.effects.type \in {"resource_tax", "project_restriction"} )
  => /\ Range(last.result) \subseteq Range(last.existing_laws)
     /\ \A law \in Range(last.existing_laws) :
          law \in Range(last.result)
            <=> /\ law.category = last.new_law.category
                /\ law.effects.type = last.new_law.effects.type
                /\ TargetOf(law) = TargetOf(last.new_law)

\* a resource tax was checked against a resource tax on the same resource
\* and one on another resource: only the first is returned
C15_Witness ==
  /\ last.op = "conflicts_return"
  /\ last.new_law.effects.type = "resource_tax"
  /\ Len(last.existing_laws) = 2
  /\ \A i \in 1..2 : last.existing_laws[i].effects.type = "resource_tax"
  /\ TargetOf(last.existing_laws[1]) = TargetOf(last.new_law)
  /\ TargetOf(last.existing_laws[2]) # TargetOf(last.new_law)
  /\ last.result = <<last.existing_laws[1]>>

\* C16: a successful resolve that enacts a route_tax law voids a route_tax
\* law only if that law taxes the same region.
C16_RouteTaxConflictIffSameRegion ==
  (last.op = "resolve" /\ last.status = "success") =>
    \A c \in last.conflicts :
      LawById(c).effects.type = "route_tax"
        => Get(LawById(c).parameters, "REGION")
             = Get(LawById(last.enacted_id).parameters, "REGION")

\* C17: a successful resolve adds exactly one law, active, with the resolved
\* round as enacted_round and the default duration; no other step adds a
\* law; no step removes a law or changes one otherwise than by marking it
\* inactive.
C17_LawsOnlyGrow ==
  [][ /\ IF last'.op = "resolve" /\ last'.status = "success"
         THEN /\ Len(laws') = Len(laws) + 1
              /\ laws'[Len(laws')].is_active
              /\ laws'[Len(laws')].game_id = last'.game_id
              /\ laws'[Len(laws')].proposal_id = last'.winning_id
              /\ laws'[Len(laws')].enacted_round = last'.round_number
              /\ laws'[Len(laws')].duration = DefaultDuration
         ELSE Len(laws') = Len(laws)
      /\ \A i \in 1..Len(laws) :
           \/ laws'[i] = laws[i]
           \/ /\ laws[i].is_active
              /\ laws'[i] = [laws[i] EXCEPT !.is_active = FALSE,
                                             !.voided_by = laws'[i].voided_by]
    ]_vars

\* the resolve of round 2 has added a second law next to the first, which
\* is still on record, inactive
C17_Witness ==
  /\ last.op = "resolve" /\ last.status = "success" /\ last.round_number = 2
  /\ Len(laws) = 2
  /\ ~laws[1].is_active /\ laws[1].enacted_round = 1
  /\ laws[2].is_active /\ laws[2].enacted_round = 2

\* C18: an expire-check changes no inactive law and no voided_by, and a
\* second check at the same round changes nothing; a resolve voids only laws
\* that are active when it runs and changes no inactive law.
C18_InactiveLawsUntouched ==
  [][ /\ last'.op = "expire" =>
           /\ Len(laws') = Len(laws)
           /\ \A i \in 1..Len(laws) :
                /\ ~laws[i].is_active => laws'[i] = laws[i]
                /\ laws'[i].voided_by = laws[i].voided_by
           /\ ( /\ last.op = "expire" /\ last.status = "ok"
                /\ last.game_id = last'.game_id
                /\ last.round_number = last'.round_number ) => laws' = laws
      /\ last'.op = "resolve" =>
           /\ \A c \in last'.conflicts : LawById(c).is_active
           /\ \A i \in 1..Len(laws) :
                ~laws[i].is_active => laws'[i] = laws[i]
    ]_vars

\* an expire-check at round 4 has completed while the first of two laws on
\* the same resource, inactive since the second was enacted, is on record
C18_Witness ==
  /\ last.op = "expire" /\ last.status = "ok" /\ last.round_number = 4
  /\ Len(laws) = 2
  /\ TargetOf(laws[1]) = TargetOf(laws[2])
  /\ laws[1].effects.type = laws[2].effects.type
  /\ ~laws[1].is_active /\ laws[1].enacted_round = 1
  /\ laws[2].is_active /\ laws[2].enacted_round = 2

\* C19: a propose, vote, resolve or expire-check request for one game leaves
\* the proposals, vote lists and laws of every other game as they are, also
\* when it names a proposal of another game; the rows it adds belong to its
\* own game.
C19_OtherGamesUntouched ==
  [][ last'.op \in {"propose", "vote", "resolve", "expire"} =>
        /\ Len(proposals') >= Len(proposals)
        /\ Len(laws') >= Len(laws)
        /\ \A i \in 1..Len(proposals) :
             proposals[i].game_id # last'.game_id => proposals'[i] = proposals[i]
        /\ \A i \in (Len(proposals) + 1)..Len(proposals') :
             proposals'[i].game_id = last'.game_id
        /\ \A i \in 1..Len(laws) :
             laws[i].game_id # last'.game_id => laws'[i] = laws[i]
        /\ \A i \in (Len(laws) + 1)..Len(laws') :
             laws'[i].game_id = last'.game_id ]_vars

\* a vote request for game 1 has named a proposal of game 2 and succeeded,
\* and the voter is not in that proposal's list
C19_Witness ==
  /\ last.op = "vote" /\ last.vote /\ last.status = "ok" /\ last.game_id = 1
  /\ \E i \in 1..Len(proposals) :
       /\ proposals[i].id = last.proposal_id
       /\ proposals[i].game_id = 2
       /\ ~Contains(proposals[i].votes, last.voting_civilization)

\* C20: for every list of active laws and every context, calculate_law_effects
\* returns a tax_percentage that is a number between 0 and 100.
C20_TaxWithinBounds ==
  last.op = "effects_return" =>
    /\ ~last.result.raised
    /\ ~last.result.tax_is_nan
    /\ last.result.tax_percentage >= 0
    /\ last.result.tax_percentage <= 100 * Tenths

\* the law is a trade law that taxes the traded resource (or ALL) or a
\* region on the trade route
TaxesTrade(law, context) ==
  /\ law.effects.applies_to = "trade"
  /\ \/ /\ law.effects.type = "resource_tax"
        /\ law.parameters.RESOURCE_TYPE \in {context.resource_type, "ALL"}
     \/ /\ law.effects.type = "route_tax"
        /\ law.parameters.REGION \in context.route

\* the TAX_PERCENTAGE values, in tenths, of the laws of a list that tax the
\* trade, added up
RECURSIVE MatchingTaxSum(_, _)
MatchingTaxSum(active_laws, context) ==
  IF active_laws = <<>> THEN 0
  ELSE (IF /\ TaxesTrade(Head(active_laws), context)
           /\ Head(active_laws).parameters.TAX_PERCENTAGE \in DOMAIN FloatOf
        THEN FloatOf[Head(active_laws).parameters.TAX_PERCENTAGE] ELSE 0)
       + MatchingTaxSum(Tail(active_laws), context)

\* C21: for a trade context the returned tax_percentage is the sum, capped
\* at 100, of TAX_PERCENTAGE over exactly the active trade laws that are a
\* resource_tax on the traded resource (or ALL) or a route_tax on a region
\* of the route; other laws contribute nothing.  (The sum is NaN exactly when
\* one of those laws carries a NaN.)
C21_TradeTaxIsCappedSum ==
  (last.op = "effects_return" /\ Get(last.context, "action_type") = "trade") =>
    LET sum == MatchingTaxSum(last.active_laws, last.context)
        nan == \E i \in 1..Len(last.active_laws) :
                 /\ TaxesTrade(last.active_laws[i], last.context)
                 /\ last.active_laws[i].parameters.TAX_PERCENTAGE
                      \in NaNStrings
    IN  /\ ~last.result.raised
        /\ last.result.tax_is_nan = nan
        /\ ~nan => last.result.tax_percentage
                     = (IF sum > 100 * Tenths THEN 100 * Tenths ELSE sum)

\* a 30% tax on the traded resource and a 10% tax on a region of the route
\* add up to 40 while a project law in the list adds nothing
C21_Witness ==
  /\ last.op = "effects_return"
  /\ Get(last.context, "action_type") = "trade"
  /\ Len(last.active_laws) = 3
  /\ \E i, j, k \in 1..3 :
       /\ last.active_laws[i].effects.type = "resource_tax"
       /\ TaxesTrade(last.active_laws[i], last.context)
       /\ last.active_laws[i].parameters.TAX_PERCENTAGE = "30"
       /\ last.active_laws[j].effects.type = "route_tax"
       /\ TaxesTrade(last.active_laws[j], last.context)
       /\ last.active_laws[k].effects.type = "project_restriction"
  /\ last.result.tax_percentage = 40 * Tenths

\* the law is a project_restriction law naming the project of the context
RestrictsProject(law, context) ==
  /\ law.effects.type = "project_restriction"
  /\ law.parameters.PROJECT_NAME = context.project_name

\* the LICENSE_COST values, in tenths, of the laws of a list that restrict
\* the project and charge one of the resources, added up
RECURSIVE LicenseSum(_, _, _)
LicenseSum(active_laws, context, resources) ==
  IF active_laws = <<>> THEN 0
  ELSE (IF /\ RestrictsProject(Head(active_laws), context)
           /\ Head(active_laws).parameters.RESOURCE_TYPE \in resources
        THEN FloatOf[Head(active_laws).parameters.LICENSE_COST] ELSE 0)
       + LicenseSum(Tail(active_laws), context, resources)

ChargedResources == {"Crystal", "Neutronium"}

\* C22: for a project_development context on project P every active
\* project_restriction law naming P adds its LICENSE_COST to license_cost and
\* to the requirement of its RESOURCE_TYPE; laws naming another project and
\* trade laws add nothing.
C22_ProjectLicenseCosts ==
  (/\ last.op = "effects_return"
   /\ Get(last.context, "action_type") = "project_development") =>
    /\ ~last.result.raised
    /\ last.result.license_cost * Tenths
         = LicenseSum(last.active_laws, last.context, ChargedResources)
    /\ \A r \in ChargedResources :
         GetOr(last.result.resource_requirements, r, 0) * Tenths
           = LicenseSum(last.active_laws, last.context, {r})
    /\ DOMAIN last.result.resource_requirements \subseteq ChargedResources
    /\ last.result.tax_percentage = 0

\* C23: the result of calculate_law_effects does not depend on the order of
\* the active laws: for a permutation of the same list and the same context
\* tax_percentage, license_cost and resource_requirements are equal.
C23_OrderIndependent ==
  last.op = "permute_return" =>
    /\ last.permuted_result.raised = last.result.raised
    /\ last.permuted_result.tax_is_nan = last.result.tax_is_nan
    /\ last.permuted_result.tax_percentage = last.result.tax_percentage
    /\ last.permuted_result.tax_ulps = last.result.tax_ulps
    /\ last.permuted_result.license_cost = last.result.license_cost
    /\ last.permuted_result.resource_requirements
         = last.result.resource_requirements

\* C24: on an empty list of active laws calculate_law_effects returns the
\* zero accumulator (tax 0, license cost 0, no resource requirements, no
\* restrictions) for any context, also one without an action type.
C24_EmptyLawsGiveZero ==
  (last.op = "effects_return" /\ last.active_laws = <<>>) =>
    /\ ~last.result.raised
    /\ ~last.result.tax_is_nan
    /\ last.result.tax_percentage = 0
    /\ last.result.tax_ulps = 0
    /\ last.result.license_cost = 0
    /\ last.result.resource_requirements = <<>>
    /\ last.result.restrictions = <<>>

\* the call with no laws and a context that has no action type has returned
C24_Witness ==
  /\ last.op = "effects_return"
  /\ last.active_laws = <<>>
  /\ "action_type" \notin DOMAIN last.context
  /\ ~last.result.raised

\* every parameter of the template is present and every range parameter is
\* a number inside [min, max]
AllPresentAndInRange(template_id, parameters) ==
  LET defs == law_templates[template_id].parameters IN
  \A i \in 1..Len(defs) :
    /\ defs[i].name \in DOMAIN parameters
    /\ defs[i].type = "range" =>
         /\ parameters[defs[i].name] \in DOMAIN FloatOf
         /\ defs[i].min * Tenths <= FloatOf[parameters[defs[i].name]]
         /\ FloatOf[parameters[defs[i].name]] <= defs[i].max * Tenths

\* C25: validate_parameters returns valid (no errors) if and only if the
\* template exists, every parameter of its schema is present and every range
\* parameter coerces to a number inside [min, max], both bounds accepted; an
\* unknown template yields exactly one error.
C25_ValidIffPresentAndInRange ==
  last.op = "validate_return" =>
    /\ (last.errors = <<>>) <=>
         /\ last.template_id \in TemplateIds
         /\ AllPresentAndInRange(last.template_id, last.parameters)
    /\ last.template_id \notin TemplateIds => Len(last.errors) = 1

\* C26: a proposal request whose parameters fail validation, or whose
\* template is unknown, gets success = false with a non-empty error list:
\* the endpoint answers 400 and the proposals stay as they were.
C26_InvalidProposalRejected ==
  [][ (/\ last'.op = "propose"
       /\ validate_parameters(last'.template_id, last'.parameters) # <<>>)
      => /\ last'.status = "rejected"
         /\ last'.errors # <<>>
         /\ proposals' = proposals ]_vars

\* an out-of-range proposal was rejected after another proposal was stored
C26_Witness ==
  /\ last.op = "propose"
  /\ last.status = "rejected"
  /\ last.template_id = "resource_tax_law"
  /\ Get(last.parameters, "TAX_PERCENTAGE") = "200"
  /\ Len(proposals) = 1

Placeholders == { PlaceholderOf[n] : n \in DOMAIN PlaceholderOf }

\* C27: for every template and every parameter set that passes validation
\* the rendered law text holds no placeholder any more, and rendering again
\* gives the same text.
C27_RenderedTextHasNoPlaceholder ==
  last.op = "render_return" =>
    /\ \A i \in 1..Len(last.law_text) : last.law_text[i] \notin Placeholders
    /\ last.rendered_again = last.law_text

\* C28: whenever resolve_law_votes returns success, the winning proposal is
\* one of the proposals it was given (never null) and holds the maximum vote
\* count, whatever the configured tiebreaker.
C28_SuccessHasWinner ==
  (last.op = "resolve_return" /\ last.result.success) =>
    /\ last.result.winning_id # NoId
    /\ last.result.winning_id \in Range(last.proposals)
    /\ last.result.winning_id \in TopProposals

\* C29: when the ledger reads and the write-backs of vote requests for the
\* same game interleave, no recorded vote is lost: no vote list of a proposal
\* ever loses a voter.
C29_NoVoteLost ==
  [][ \A i \in 1..Len(proposals) :
        Range(proposals[i].votes) \subseteq Range(proposals'[i].votes) ]_vars

\* the proposals of a round that hold the most votes
RoundLeaders(g, r) ==
  LET P == get_law_proposals(g, r) IN
  { p \in P : \A q \in P :
      Len(ProposalById(q).votes) <= Len(ProposalById(p).votes) }

\* C30: a resolve call that ends without a winner (no proposals for the
\* round, or a tie under tie-break none) leaves the enacted laws as they
\* were (no law enacted, voided or expired) and changes no vote list.
C30_NoWinnerChangesNothing ==
  [][ (/\ last'.op = "resolve"
       /\ \/ get_law_proposals(last'.game_id, last'.round_number) = {}
          \/ /\ Cardinality(RoundLeaders(last'.game_id,
                                          last'.round_number)) > 1
             /\ voting_rules.tiebreaker = "none")
      => /\ laws' = laws
         /\ proposals' = proposals
         /\ last'.status \in {"no_proposals", "tie"}
         /\ last'.enacted_id = NoId ]_vars

\* a resolve call has ended in a tie while an earlier law is in force
C30_Witness ==
  /\ last.op = "resolve"
  /\ last.status = "tie"
  /\ \E i \in 1..Len(laws) : laws[i].is_active

====
